---- MODULE Spec2Model ----
(***************************************************************************)
(* Model of the wireguard-mesh client: the overlay address derivation and  *)
(* peer translation of package wg (getOverlayAddr, Peer.toPeerConfig,      *)
(* State.AddPeers, State.SetUpInterface, State.DownInterface) and the      *)
(* client's main event loop with its updatePeers goroutines.               *)
(*                                                                         *)
(* Spec         the client process, no fairness                            *)
(* SpecLive     the client process, every thread keeps being scheduled     *)
(* SpecShutdown the client process, only the control thread is scheduled   *)
(* SpecFn       the pure functions applied to enumerated inputs            *)
(***************************************************************************)
EXTENDS Integers, Sequences, FiniteSets, TLC

VARIABLES
    pcMain,        \* position of func main: "new", "ifup", "loop", "teardown", "returning", "exited"
    iface,         \* TRUE iff the wireguard link s.iface exists
    devPeers,      \* the device's peers: public key -> peer state, NoPeer when not configured
    presharedKey,  \* main's presharedKey, parsed from config.PresharedKey
    sigPending,    \* TRUE iff incomingSignals (capacity 1) holds a signal
    timer,         \* main's variable timer: "none", "armed", "fired" (tick in timer.C) or "drained"
    attempts,      \* the updatePeers goroutines, one slot each
    call,          \* the State.AddPeers call made by the latest step, NoCall if it made none
    downResult,    \* what the latest DownInterface returned: "notrun", "ok", "err"
    downCalls,     \* how many times DownInterface has been called
    fnOp,          \* SpecFn: "input", then the function that was applied
    fnNet,         \* SpecFn: the net.IPNet argument
    fnPeer,        \* SpecFn: the Peer argument
    fnAddr,        \* SpecFn: result of getOverlayAddr
    fnConfig       \* SpecFn: result of toPeerConfig

mainVars == <<pcMain, iface, devPeers, presharedKey, sigPending, timer, attempts, call, downResult,
             downCalls>>
fnVars == <<fnOp, fnNet, fnPeer, fnAddr, fnConfig>>
vars == <<pcMain, iface, devPeers, presharedKey, sigPending, timer, attempts, call, downResult,
          downCalls, fnOp, fnNet, fnPeer, fnAddr, fnConfig>>

-----------------------------------------------------------------------------
(* Bounds *)

\* goroutine slots: how many updatePeers goroutines the model can hold at once
MaxInFlight == 2

\* longest peer list the directory answers with
MaxList == 2

-----------------------------------------------------------------------------
(* Values *)

IPv4len == 4

IPv6len == 16

\* sha256.Size
DigestSize == 32

\* wgtypes.Key{}: the zero key
ZeroKey == "zero"

MeshSecret == "meshsecret"

DirSecret == "dirsecret"

SelfKey == "self"

ServerKey == "srv"

\* public keys: the local node, the directory server, other clients; k2a and
\* kz2a are identities whose digest ends in byte 0x2A
Keys == {SelfKey, ServerKey, "p1", "p2", "k2a", "kz2a"}

KeySeed ==
    [k \in Keys |->
        CASE k = SelfKey -> 7
          [] k = ServerKey -> 200
          [] k = "p1" -> 255
          [] k = "p2" -> 0
          [] k = "k2a" -> 42
          [] k = "kz2a" -> 42]

\* The digests of the identities: DigestSize bytes each. The digest of kz2a is
\* 0...0 2A, the others spread over the byte values.
Digests ==
    [k \in Keys |->
        [i \in 1..DigestSize |->
            IF k = "kz2a"
            THEN (IF i = DigestSize THEN KeySeed[k] ELSE 0)
            ELSE (KeySeed[k] + (DigestSize - i) * (2 * KeySeed[k] + 89)) % 256]]

\* sha256.Sum256(pubkey[:])
Sum256(k) == Digests[k]

\* net.CIDRMask(ones, bits), kept as what Mask.Size() returns for it
CIDRMask(ones, bits) == [ones |-> ones, bits |-> bits]

\* the IPv4-mapped 16-byte form net.ParseIP returns for a dotted quad
V4InV6(a, b, c, d) == <<0, 0, 0, 0, 0, 0, 0, 0, 0, 0, 255, 255, a, b, c, d>>

\* nil net.IP
NilIP == <<>>

\* net.ParseIP on the address strings of the model: nil unless the string is
\* an IP literal
ParseIP(s) ==
    CASE s = "192.0.2.7" -> V4InV6(192, 0, 2, 7)
      [] s = "fd00::1" -> <<253, 0, 0, 0, 0, 0, 0, 0, 0, 0, 0, 0, 0, 0, 0, 1>>
      [] OTHER -> NilIP

\* net.IP.String on the addresses of the model
IPString(ip) ==
    CASE ip = V4InV6(192, 0, 2, 7) -> "192.0.2.7"
      [] ip = <<253, 0, 0, 0, 0, 0, 0, 0, 0, 0, 0, 0, 0, 0, 0, 1>> -> "fd00::1"
      [] ip = NilIP -> "<nil>"
      [] OTHER -> "?"

-----------------------------------------------------------------------------
(* package wg: pure functions *)

\* the loop of getOverlayAddr: for i := 1; i <= n; i++ { ip[len(ip)-i] = hb[len(hb)-i] }
RECURSIVE OverwriteTail(_, _, _, _)
OverwriteTail(ip, hb, i, n) ==
    IF i > n
    THEN ip
    ELSE OverwriteTail([ip EXCEPT ![Len(ip) - i + 1] = hb[Len(hb) - i + 1]], hb, i + 1, n)

\* getOverlayAddr counting a started host byte as a whole one
getOverlayAddr_RoundUp(ipnet, pubkey) ==
    LET bits == ipnet.Mask.ones
        size == ipnet.Mask.bits
        hb   == Sum256(pubkey)
    IN  [IP   |-> OverwriteTail(ipnet.IP, hb, 1, (size - bits + 7) \div 8),
         Mask |-> CIDRMask(size, size)]

\* getOverlayAddr overwriting the last byte only
getOverlayAddr_LastByte(ipnet, pubkey) ==
    LET bits == ipnet.Mask.ones
        size == ipnet.Mask.bits
        hb   == Sum256(pubkey)
    IN  [IP   |-> OverwriteTail(ipnet.IP, hb, 1, IF size - bits >= 8 THEN 1 ELSE 0),
         Mask |-> CIDRMask(size, size)]

\* getOverlayAddr synthesizes an address by hashing the pubkey
getOverlayAddr(ipnet, pubkey) ==
    LET bits == ipnet.Mask.ones
        size == ipnet.Mask.bits
        hb   == Sum256(pubkey)
    IN  [IP   |-> OverwriteTail(ipnet.IP, hb, 1, (size - bits) \div 8),
         Mask |-> CIDRMask(size, size)]

\* toPeerConfig with the preshared key treated like the endpoint and the
\* keepalive: the pointer is nil for the zero key
toPeerConfig_SecretIfPresent(p, overlayNet) ==
    [PublicKey    |-> p.PublicKey,
     AllowedIPs   |-> <<getOverlayAddr(overlayNet, p.PublicKey)>>,
     PresharedKey |-> IF p.PresharedKey # ZeroKey THEN <<p.PresharedKey>> ELSE <<>>,
     Endpoint     |-> IF p.Port # 0 /\ p.IP # ""
                      THEN <<[IP |-> ParseIP(p.IP), Port |-> p.Port]>>
                      ELSE <<>>,
     PersistentKeepaliveInterval |->
                      IF p.KeepaliveInterval # 0 THEN <<p.KeepaliveInterval>> ELSE <<>>]

\* toPeerConfig allowing the whole overlay network to the peer
toPeerConfig_AllowsNetwork(p, overlayNet) ==
    [PublicKey    |-> p.PublicKey,
     AllowedIPs   |-> <<overlayNet>>,
     PresharedKey |-> <<p.PresharedKey>>,
     Endpoint     |-> IF p.Port # 0 /\ p.IP # ""
                      THEN <<[IP |-> ParseIP(p.IP), Port |-> p.Port]>>
                      ELSE <<>>,
     PersistentKeepaliveInterval |->
                      IF p.KeepaliveInterval # 0 THEN <<p.KeepaliveInterval>> ELSE <<>>]

\* Peer.toPeerConfig. A pointer field of wgtypes.PeerConfig is a sequence:
\* <<>> for nil, <<v>> for a pointer to v.
toPeerConfig(p, overlayNet) ==
    [PublicKey    |-> p.PublicKey,
     AllowedIPs   |-> <<getOverlayAddr(overlayNet, p.PublicKey)>>,
     PresharedKey |-> <<p.PresharedKey>>,
     Endpoint     |-> IF p.Port # 0 /\ p.IP # ""
                      THEN <<[IP |-> ParseIP(p.IP), Port |-> p.Port]>>
                      ELSE <<>>,
     PersistentKeepaliveInterval |->
                      IF p.KeepaliveInterval # 0 THEN <<p.KeepaliveInterval>> ELSE <<>>]

\* AddPeers without the test p.PublicKey != s.PublicKey: every peer is
\* submitted, the local one too
RECURSIVE AddPeersConfig_NoFilter(_, _, _)
AddPeersConfig_NoFilter(peers, publicKey, overlayNetwork) ==
    IF peers = <<>>
    THEN <<>>
    ELSE <<toPeerConfig(Head(peers), overlayNetwork)>>
             \o AddPeersConfig_NoFilter(Tail(peers), publicKey, overlayNetwork)

\* AddPeers leaving its loop at the local peer instead of skipping it
RECURSIVE AddPeersConfig_StopAtSelf(_, _, _)
AddPeersConfig_StopAtSelf(peers, publicKey, overlayNetwork) ==
    IF peers = <<>> \/ Head(peers).PublicKey = publicKey
    THEN <<>>
    ELSE <<toPeerConfig(Head(peers), overlayNetwork)>>
             \o AddPeersConfig_StopAtSelf(Tail(peers), publicKey, overlayNetwork)

\* the loop of State.AddPeers that builds config: every peer but the local one
RECURSIVE AddPeersConfig(_, _, _)
AddPeersConfig(peers, publicKey, overlayNetwork) ==
    IF peers = <<>>
    THEN <<>>
    ELSE LET p == Head(peers)
             rest == AddPeersConfig(Tail(peers), publicKey, overlayNetwork)
         IN  IF p.PublicKey # publicKey
             THEN <<toPeerConfig(p, overlayNetwork)>> \o rest
             ELSE rest

\* a key the device has no peer for
NoPeer == [present |-> FALSE, AllowedIPs |-> {}, PresharedKey |-> ZeroKey,
           Endpoint |-> <<>>, PersistentKeepaliveInterval |-> 0]

\* wgctrl's ConfigureDevice for one PeerConfig with Remove, UpdateOnly and
\* ReplaceAllowedIPs all false: the peer is created if absent, allowed IPs are
\* added, and each non-nil pointer field overwrites the peer's value
UpsertPeer(old, c) ==
    [present      |-> TRUE,
     AllowedIPs   |-> old.AllowedIPs \cup {c.AllowedIPs[i] : i \in DOMAIN c.AllowedIPs},
     PresharedKey |-> IF c.PresharedKey # <<>> THEN c.PresharedKey[1] ELSE old.PresharedKey,
     Endpoint     |-> IF c.Endpoint # <<>> THEN c.Endpoint ELSE old.Endpoint,
     PersistentKeepaliveInterval |->
                      IF c.PersistentKeepaliveInterval # <<>>
                      THEN c.PersistentKeepaliveInterval[1]
                      ELSE old.PersistentKeepaliveInterval]

\* wgctrl's ConfigureDevice(iface, wgtypes.Config{Peers: config}) when it
\* succeeds: the peer configs are applied in order, upsert by public key
RECURSIVE ConfigureDevice(_, _)
ConfigureDevice(dev, config) ==
    IF config = <<>>
    THEN dev
    ELSE LET c == Head(config)
         IN  ConfigureDevice([dev EXCEPT ![c.PublicKey] = UpsertPeer(dev[c.PublicKey], c)],
                             Tail(config))

-----------------------------------------------------------------------------
(* cmd/client: configuration and the values of a run *)

\* config.OverlayNet as net.ParseCIDR gives it: 10.0.0.0/8
OverlayNetwork == [IP |-> <<10, 0, 0, 0>>, Mask |-> CIDRMask(8, 8 * IPv4len)]

\* config.ServerPort
ServerPort == 51820

\* the wg.Peer main registers for the directory server
ServerPeer ==
    [IP |-> "192.0.2.7", Port |-> ServerPort, PublicKey |-> ServerKey,
     PresharedKey |-> ZeroKey, KeepaliveInterval |-> 0]

\* a record of a directory answer with endpoint, secret and keepalive
FullPeer(k) ==
    [IP |-> "192.0.2.7", Port |-> 51821, PublicKey |-> k,
     PresharedKey |-> DirSecret, KeepaliveInterval |-> 25]

\* a record of a directory answer with none of them
BarePeer(k) ==
    [IP |-> "", Port |-> 0, PublicKey |-> k,
     PresharedKey |-> ZeroKey, KeepaliveInterval |-> 0]

\* the records a directory answer is made of: the local node, two other
\* clients, one of them known to the directory in two ways, and the server
\* itself
DirPeers ==
    {FullPeer(SelfKey), FullPeer("p1"), BarePeer("p1"), BarePeer("p2"), BarePeer(ServerKey)}

\* the peer lists gob decodes from a directory answer
DirLists == UNION {[1..n -> DirPeers] : n \in 0..MaxList}

\* values of rand.Int(): non-negative
RandInts == {0, 19, 2147483647}

\* rand.Int()%20+20, the seconds of the timer updatePeers hands back
NextDelay(r) == (r % 20) + 20

Slots == 1..MaxInFlight

\* a slot no goroutine runs in
IdleAttempt == [pc |-> "idle", peers |-> <<>>, err |-> "nil", delay |-> 0]

NoCall == [by |-> "none", peers |-> <<>>, config |-> <<>>, err |-> FALSE]

NoDevPeers == [k \in Keys |-> NoPeer]

\* the goroutines that have been launched and have not handed their timer over
InFlight == {i \in Slots : attempts[i].pc # "idle"}

MainInit ==
    /\ pcMain = "new"
    /\ iface = FALSE
    /\ devPeers = NoDevPeers
    /\ presharedKey \in {ZeroKey, MeshSecret}
    /\ sigPending = FALSE
    /\ timer = "none"
    /\ attempts = [i \in Slots |-> IdleAttempt]
    /\ call = NoCall
    /\ downResult = "notrun"
    /\ downCalls = 0

FnIdle ==
    /\ fnOp = "off"
    /\ fnNet = OverlayNetwork
    /\ fnPeer = ServerPeer
    /\ fnAddr = OverlayNetwork
    /\ fnConfig = toPeerConfig(ServerPeer, OverlayNetwork)

Init == MainInit /\ FnIdle

-----------------------------------------------------------------------------
(* package wg: operations on the device *)

\* AddPeers with wgtypes.Config{ReplacePeers: true}: the submitted peers
\* replace the device's peers
AddPeers_ReplacePeers(by, peers, ok) ==
    LET config == AddPeersConfig(peers, SelfKey, OverlayNetwork)
    IN  /\ ok => iface
        /\ devPeers' = IF ok THEN ConfigureDevice(NoDevPeers, config) ELSE devPeers
        /\ call' = [by |-> by, peers |-> peers, config |-> config, err |-> ~ok]
        /\ UNCHANGED iface

\* State.AddPeers(peers) called by `by`; ok is whether ConfigureDevice succeeds,
\* which it cannot when the device does not exist
AddPeers(by, peers, ok) ==
    LET config == AddPeersConfig(peers, SelfKey, OverlayNetwork)
    IN  /\ ok => iface
        /\ devPeers' = IF ok THEN ConfigureDevice(devPeers, config) ELSE devPeers
        /\ call' = [by |-> by, peers |-> peers, config |-> config, err |-> ~ok]
        /\ UNCHANGED iface

\* State.SetUpInterface: LinkAdd fails, a later step fails, or all succeed;
\* main ends the process with logrus.Fatal on an error
SetUpInterface ==
    /\ pcMain = "new"
    /\ \E outcome \in {"LinkAdd", "later", "nil"} :
          /\ iface' = (outcome # "LinkAdd")
          /\ pcMain' = IF outcome = "nil" THEN "ifup" ELSE "exited"
    /\ call' = NoCall
    /\ UNCHANGED <<devPeers, presharedKey, sigPending, timer, attempts, downResult, downCalls>>
    /\ UNCHANGED fnVars

\* main going on to the loop when the registration of the server failed
\* (the error logged, not fatal)
AddServerPeer_IgnoreError ==
    /\ pcMain = "ifup"
    /\ \E ok \in BOOLEAN :
          /\ AddPeers("main", <<ServerPeer>>, ok)
          /\ pcMain' = "loop"
          /\ timer' = "armed"
    /\ UNCHANGED <<presharedKey, sigPending, attempts, downResult, downCalls>>
    /\ UNCHANGED fnVars

\* main registering the server with the preshared key of the mesh
AddServerPeer_WithSecret ==
    /\ pcMain = "ifup"
    /\ \E ok \in BOOLEAN :
          /\ AddPeers("main", <<[ServerPeer EXCEPT !.PresharedKey = presharedKey]>>, ok)
          /\ pcMain' = IF ok THEN "loop" ELSE "exited"
          /\ timer' = IF ok THEN "armed" ELSE timer
    /\ UNCHANGED <<presharedKey, sigPending, attempts, downResult, downCalls>>
    /\ UNCHANGED fnVars

\* main registers the directory server as the first peer, then sets up
\* incomingSignals, timer := time.NewTimer(0) and resp
AddServerPeer ==
    /\ pcMain = "ifup"
    /\ \E ok \in BOOLEAN :
          /\ AddPeers("main", <<ServerPeer>>, ok)
          /\ pcMain' = IF ok THEN "loop" ELSE "exited"
          /\ timer' = IF ok THEN "armed" ELSE timer
    /\ UNCHANGED <<presharedKey, sigPending, attempts, downResult, downCalls>>
    /\ UNCHANGED fnVars

\* DownInterface without the os.IsNotExist test: the error of client.Device
\* is returned when the device does not exist
DownInterfaceCall_NoNotExist ==
    /\ \/ /\ ~iface
          /\ downResult' = "err"
          /\ UNCHANGED <<iface, devPeers>>
       \/ /\ iface
          /\ \E ok \in BOOLEAN :
                /\ downResult' = IF ok THEN "ok" ELSE "err"
                /\ iface' = ~ok
                /\ devPeers' = IF ok THEN NoDevPeers ELSE devPeers
    /\ downCalls' = downCalls + 1

\* State.DownInterface: client.Device reports that the device does not exist
\* and nil is returned, or the device exists and Device, LinkByName or LinkDel
\* fails, or the link is deleted
DownInterfaceCall ==
    /\ \/ /\ ~iface
          /\ downResult' = "ok"
          /\ UNCHANGED <<iface, devPeers>>
       \/ /\ iface
          /\ \E ok \in BOOLEAN :
                /\ downResult' = IF ok THEN "ok" ELSE "err"
                /\ iface' = ~ok
                /\ devPeers' = IF ok THEN NoDevPeers ELSE devPeers
    /\ downCalls' = downCalls + 1

\* the call of DownInterface main defers: it runs when main leaves the loop,
\* an error is logged
DownInterface ==
    /\ pcMain = "teardown"
    /\ DownInterfaceCall
    /\ pcMain' = "returning"
    /\ call' = NoCall
    /\ UNCHANGED <<presharedKey, sigPending, timer, attempts>>
    /\ UNCHANGED fnVars

\* main returns and the process ends, with every goroutine
Exit ==
    /\ pcMain = "returning"
    /\ pcMain' = "exited"
    /\ call' = NoCall
    /\ UNCHANGED <<iface, devPeers, presharedKey, sigPending, timer, attempts, downResult, downCalls>>
    /\ UNCHANGED fnVars

-----------------------------------------------------------------------------
(* cmd/client: the event loop of main *)

\* SIGTERM or os.Interrupt is delivered: signal.Notify puts it into
\* incomingSignals unless the channel is full
Signal ==
    /\ pcMain = "loop"
    /\ ~sigPending
    /\ sigPending' = TRUE
    /\ call' = NoCall
    /\ UNCHANGED <<pcMain, iface, devPeers, presharedKey, timer, attempts, downResult, downCalls>>
    /\ UNCHANGED fnVars

\* the runtime fires main's timer: one tick is put into timer.C
TimerFire ==
    /\ pcMain = "loop"
    /\ timer = "armed"
    /\ timer' = "fired"
    /\ call' = NoCall
    /\ UNCHANGED <<pcMain, iface, devPeers, presharedKey, sigPending, attempts, downResult, downCalls>>
    /\ UNCHANGED fnVars

\* the signal case with a bare break, which leaves the select and not the
\* loop
MainSignalCase_BreakSelect ==
    /\ pcMain = "loop"
    /\ sigPending
    /\ sigPending' = FALSE
    /\ call' = NoCall
    /\ UNCHANGED <<pcMain, iface, devPeers, presharedKey, timer, attempts, downResult, downCalls>>
    /\ UNCHANGED fnVars

\* case <-incomingSignals: break main_loop
MainSignalCase ==
    /\ pcMain = "loop"
    /\ sigPending
    /\ sigPending' = FALSE
    /\ pcMain' = "teardown"
    /\ call' = NoCall
    /\ UNCHANGED <<iface, devPeers, presharedKey, timer, attempts, downResult, downCalls>>
    /\ UNCHANGED fnVars

\* the timer case on a channel that keeps its tick (a ticker-like timer)
MainTimerCase_KeepTick ==
    /\ pcMain = "loop"
    /\ timer = "fired"
    /\ Slots \ InFlight # {}
    /\ LET i == CHOOSE j \in Slots \ InFlight : \A k \in Slots \ InFlight : j <= k
       IN  attempts' = [attempts EXCEPT ![i] = [IdleAttempt EXCEPT !.pc = "fetchPeers"]]
    /\ call' = NoCall
    /\ UNCHANGED <<pcMain, iface, devPeers, presharedKey, sigPending, timer, downResult, downCalls>>
    /\ UNCHANGED fnVars

\* case <-timer.C: go updatePeers(...). The tick is taken out of timer.C and a
\* goroutine starts in the first free slot.
MainTimerCase ==
    /\ pcMain = "loop"
    /\ timer = "fired"
    /\ Slots \ InFlight # {}
    /\ LET i == CHOOSE j \in Slots \ InFlight : \A k \in Slots \ InFlight : j <= k
       IN  attempts' = [attempts EXCEPT ![i] = [IdleAttempt EXCEPT !.pc = "fetchPeers"]]
    /\ timer' = "drained"
    /\ call' = NoCall
    /\ UNCHANGED <<pcMain, iface, devPeers, presharedKey, sigPending, downResult, downCalls>>
    /\ UNCHANGED fnVars

\* a receive from resp that also runs after the loop was left (resp drained
\* during the shutdown)
MainRespCase_AfterShutdown(i) ==
    /\ pcMain # "exited"
    /\ attempts[i].pc = "send"
    /\ timer' = "armed"
    /\ attempts' = [attempts EXCEPT ![i] = IdleAttempt]
    /\ call' = NoCall
    /\ UNCHANGED <<pcMain, iface, devPeers, presharedKey, sigPending, downResult, downCalls>>
    /\ UNCHANGED fnVars

\* case timer = <-resp: the rendezvous with goroutine i blocked in timer <- ...;
\* main's timer becomes the timer the goroutine made, which runs for
\* attempts[i].delay seconds, and the goroutine ends
MainRespCase(i) ==
    /\ pcMain = "loop"
    /\ attempts[i].pc = "send"
    /\ timer' = "armed"
    /\ attempts' = [attempts EXCEPT ![i] = IdleAttempt]
    /\ call' = NoCall
    /\ UNCHANGED <<pcMain, iface, devPeers, presharedKey, sigPending, downResult, downCalls>>
    /\ UNCHANGED fnVars

-----------------------------------------------------------------------------
(* cmd/client: updatePeers *)

\* the loop of updatePeers keeping a key the directory sent
Stamp_KeepExisting(peers, preshardKey) ==
    [j \in DOMAIN peers |->
        IF peers[j].PresharedKey = ZeroKey
        THEN [peers[j] EXCEPT !.PresharedKey = preshardKey]
        ELSE peers[j]]

\* the loop of updatePeers that sets peers[i].PresharedKey = preshardKey
Stamp(peers, preshardKey) ==
    [j \in DOMAIN peers |-> [peers[j] EXCEPT !.PresharedKey = preshardKey]]

\* updatePeers without the test err == nil: AddPeers is called with the nil
\* list after a failed fetch
UpdatePeersFetch_AddOnError(i) ==
    /\ pcMain # "exited"
    /\ attempts[i].pc = "fetchPeers"
    /\ \/ /\ \E ok \in BOOLEAN : AddPeers("updatePeers", <<>>, ok)
          /\ \E r \in RandInts :
                attempts' = [attempts EXCEPT ![i] =
                    [pc |-> "send", peers |-> <<>>, err |-> "fetchPeers", delay |-> NextDelay(r)]]
       \/ /\ \E l \in DirLists :
                attempts' = [attempts EXCEPT ![i] =
                    [pc |-> "AddPeers", peers |-> l, err |-> "nil", delay |-> 0]]
          /\ call' = NoCall
          /\ UNCHANGED <<iface, devPeers>>
    /\ UNCHANGED <<pcMain, presharedKey, sigPending, timer, downResult, downCalls>>
    /\ UNCHANGED fnVars

\* updatePeers returning on a failed fetch without sending a timer
UpdatePeersFetch_ReturnOnError(i) ==
    /\ pcMain # "exited"
    /\ attempts[i].pc = "fetchPeers"
    /\ \/ attempts' = [attempts EXCEPT ![i] = IdleAttempt]
       \/ \E l \in DirLists :
             attempts' = [attempts EXCEPT ![i] =
                 [pc |-> "AddPeers", peers |-> l, err |-> "nil", delay |-> 0]]
    /\ call' = NoCall
    /\ UNCHANGED <<pcMain, iface, devPeers, presharedKey, sigPending, timer, downResult, downCalls>>
    /\ UNCHANGED fnVars

\* peers, err := fetchPeers(serverAddr) returns in goroutine i: an error
\* (client.Get or the gob decoder failed), which takes updatePeers straight to
\* timer <- time.NewTimer(...), or a decoded peer list
UpdatePeersFetch(i) ==
    /\ pcMain # "exited"
    /\ attempts[i].pc = "fetchPeers"
    /\ \/ \E r \in RandInts :
             attempts' = [attempts EXCEPT ![i] =
                 [pc |-> "send", peers |-> <<>>, err |-> "fetchPeers", delay |-> NextDelay(r)]]
       \/ \E l \in DirLists :
             attempts' = [attempts EXCEPT ![i] =
                 [pc |-> "AddPeers", peers |-> l, err |-> "nil", delay |-> 0]]
    /\ call' = NoCall
    /\ UNCHANGED <<pcMain, iface, devPeers, presharedKey, sigPending, timer, downResult, downCalls>>
    /\ UNCHANGED fnVars

\* err == nil: goroutine i stamps the peers, calls wg.AddPeers(peers), logs an
\* error, and goes on to timer <- time.NewTimer(...)
UpdatePeersAdd(i) ==
    /\ pcMain # "exited"
    /\ attempts[i].pc = "AddPeers"
    /\ \E ok \in BOOLEAN :
          /\ AddPeers("updatePeers", Stamp(attempts[i].peers, presharedKey), ok)
          /\ \E r \in RandInts :
                attempts' = [attempts EXCEPT ![i] =
                    [pc |-> "send", peers |-> <<>>,
                     err |-> IF ok THEN "nil" ELSE "AddPeers", delay |-> NextDelay(r)]]
    /\ UNCHANGED <<pcMain, presharedKey, sigPending, timer, downResult, downCalls>>
    /\ UNCHANGED fnVars

-----------------------------------------------------------------------------
(* The client process *)

Next ==
    \/ SetUpInterface
    \/ AddServerPeer
    \/ Signal
    \/ TimerFire
    \/ MainSignalCase
    \/ MainTimerCase
    \/ \E i \in Slots : MainRespCase(i)
    \/ \E i \in Slots : UpdatePeersFetch(i)
    \/ \E i \in Slots : UpdatePeersAdd(i)
    \/ DownInterface
    \/ Exit

Spec == Init /\ [][Next]_vars

\* the steps of the control thread, func main
MainThread ==
    \/ SetUpInterface
    \/ AddServerPeer
    \/ MainSignalCase
    \/ MainTimerCase
    \/ \E i \in Slots : MainRespCase(i)
    \/ DownInterface
    \/ Exit

\* the steps of the updatePeers goroutines
Goroutines == \E i \in Slots : UpdatePeersFetch(i) \/ UpdatePeersAdd(i)

\* The runtime keeps scheduling the control thread and the goroutines and
\* fires armed timers; the HTTP client's Timeout bounds fetchPeers and
\* ConfigureDevice returns, so a goroutine that can step does.
SpecLive ==
    /\ Init
    /\ [][Next]_vars
    /\ WF_vars(MainThread)
    /\ WF_vars(Goroutines)
    /\ WF_vars(TimerFire)

\* the steps by which main shuts down
MainShutdown == MainSignalCase \/ DownInterface \/ Exit

\* Only the control thread's shutdown path is scheduled: select takes the
\* signal case, which stays ready once a signal is in incomingSignals, and the
\* deferred call runs. Nothing is assumed of the goroutines, of the directory
\* or of the timers.
SpecShutdown ==
    /\ Init
    /\ [][Next]_vars
    /\ WF_vars(MainShutdown)

-----------------------------------------------------------------------------
(* Claims about the event loop *)

\* C1: at most one updatePeers goroutine is in flight (launched and not yet
\* received from on resp) at any time, and while one is in flight main's
\* timer has no tick left that could launch another: launches never exceed
\* handoffs plus one.
C1_AtMostOneInFlight ==
    /\ Cardinality(InFlight) <= 1
    /\ InFlight # {} => timer = "drained"

\* a second attempt is in flight after an earlier one configured p1 and
\* handed its timer over
C1_Witness ==
    /\ pcMain = "loop"
    /\ devPeers["p1"].present
    /\ \E i \in Slots : attempts[i].pc = "fetchPeers"

\* the public keys of a list of peers or of peer configs, in order
KeysOf(l) == [j \in DOMAIN l |-> l[j].PublicKey]

\* C2: every AddPeers call submits one peer config for each record whose
\* public key differs from the local one, in order, and none for the local
\* key; a list of the local node and one other peer yields exactly one
\* config, for that peer.
C2_NeverSubmitsSelf ==
    call.by # "none" =>
        LET others == SelectSeq(call.peers, LAMBDA p : p.PublicKey # SelfKey)
        IN  /\ KeysOf(call.config) = KeysOf(others)
            /\ \A j \in DOMAIN call.config : call.config[j].PublicKey # SelfKey
            /\ (Len(call.peers) = 2 /\ call.peers[1].PublicKey = SelfKey
                    /\ call.peers[2].PublicKey # SelfKey)
               => (Len(call.config) = 1
                    /\ call.config[1].PublicKey = call.peers[2].PublicKey)

\* the directory answered with the local node and p1, and one config, for p1,
\* was submitted
C2_Witness ==
    /\ call.by = "updatePeers"
    /\ KeysOf(call.peers) = <<SelfKey, "p1">>
    /\ KeysOf(call.config) = <<"p1">>

\* C3: the step in which fetchPeers fails makes no AddPeers call, leaves the
\* device's peers as they are and takes the goroutine to the send of a timer
\* of 20..39 seconds; the handoff of that timer changes no peer either.
C3_FetchFailureKeepsPeers ==
    [][\A i \in Slots :
          /\ (attempts[i].pc = "fetchPeers" /\ attempts'[i].err = "fetchPeers")
                => /\ call' = NoCall
                   /\ devPeers' = devPeers
                   /\ iface' = iface
                   /\ attempts'[i].pc = "send"
                   /\ attempts'[i].delay >= 20
                   /\ attempts'[i].delay < 40
          /\ (attempts[i].pc = "send" /\ attempts[i].err = "fetchPeers"
                /\ attempts'[i].pc = "idle")
                => /\ call' = NoCall
                   /\ devPeers' = devPeers
                   /\ iface' = iface
                   /\ timer' = "armed"]_vars

\* a fetch failed while p1 was configured by an earlier attempt
C3_Witness ==
    /\ devPeers["p1"].present
    /\ call = NoCall
    /\ \E i \in Slots :
          /\ attempts[i].pc = "send"
          /\ attempts[i].err = "fetchPeers"
          /\ attempts[i].delay \in 20..39

\* a shutdown signal has arrived or main has left the loop
Shut == sigPending \/ pcMain # "loop"

\* C4: unless a shutdown signal arrives, every attempt in flight ends with
\* its timer handed to main (armed, nothing in flight), and whenever nothing
\* is in flight another attempt is launched.
C4_ScheduleNeverStalls ==
    /\ (pcMain = "loop" /\ InFlight # {}) ~> (Shut \/ (InFlight = {} /\ timer = "armed"))
    /\ (pcMain = "loop" /\ InFlight = {}) ~> (Shut \/ InFlight # {})

\* an attempt whose AddPeers failed is about to hand its timer over, no
\* signal around
C4_Witness ==
    /\ ~Shut
    /\ \E i \in Slots : attempts[i].pc = "send" /\ attempts[i].err = "AddPeers"

\* C5: once a signal is in incomingSignals while main is in the loop, main
\* leaves the loop and the deferred DownInterface has run.
C5_ShutdownReachesTeardown ==
    (pcMain = "loop" /\ sigPending)
        ~> (pcMain \in {"returning", "exited"} /\ downResult # "notrun")

\* DownInterface has run while an attempt is still inside fetchPeers
C5_Witness ==
    /\ pcMain = "returning"
    /\ downResult # "notrun"
    /\ \E i \in Slots : attempts[i].pc = "fetchPeers"

\* C6: once fetchPeers has answered an attempt with a list, the attempt gets
\* to its AddPeers call unless the process ends first, and when that call
\* succeeds every public key of the list other than the local one is a peer
\* of the device.
C6_Convergence ==
    /\ [][\A i \in Slots :
            (attempts[i].pc = "AddPeers" /\ attempts'[i].pc = "send"
                /\ attempts'[i].err = "nil")
            => \A j \in DOMAIN attempts[i].peers :
                  attempts[i].peers[j].PublicKey # SelfKey
                  => devPeers'[attempts[i].peers[j].PublicKey].present]_vars
    /\ \A i \in Slots :
          (attempts[i].pc = "AddPeers") ~> (attempts[i].pc = "send" \/ pcMain = "exited")

\* an answer naming the local node and p2 was accepted: p2 is a peer of the
\* device, the local node is not
C6_Witness ==
    /\ call.by = "updatePeers"
    /\ ~call.err
    /\ \E j \in DOMAIN call.peers : call.peers[j].PublicKey = SelfKey
    /\ \E j \in DOMAIN call.peers : call.peers[j].PublicKey = "p2"
    /\ devPeers["p2"].present
    /\ ~devPeers[SelfKey].present

-----------------------------------------------------------------------------
(* The pure functions of package wg on enumerated inputs *)

\* base addresses of IPv4 prefixes, with and without host bits set
FnBases4 == {<<10, 0, 0, 0>>, <<10, 1, 2, 3>>, <<192, 168, 255, 255>>, <<0, 0, 0, 0>>}

\* base addresses of IPv6 prefixes: fd00:: and one with every byte set
FnBases6 ==
    {<<253, 0, 0, 0, 0, 0, 0, 0, 0, 0, 0, 0, 0, 0, 0, 0>>,
     <<253, 18, 52, 86, 120, 154, 188, 222, 240, 18, 52, 86, 120, 154, 188, 222>>}

\* the network prefixes getOverlayAddr is applied to: every prefix length of
\* IPv4 and of IPv6, byte-aligned or not
FnNets ==
    {[IP |-> b, Mask |-> CIDRMask(n, 8 * IPv4len)] : b \in FnBases4, n \in 0..(8 * IPv4len)}
    \cup
    {[IP |-> b, Mask |-> CIDRMask(n, 8 * IPv6len)] : b \in FnBases6, n \in 0..(8 * IPv6len)}

\* the peers toPeerConfig is applied to
FnPeers ==
    [IP : {"", "192.0.2.7", "fd00::1", "bogus"},
     Port : {0, 51821},
     PublicKey : Keys,
     PresharedKey : {ZeroKey, DirSecret},
     KeepaliveInterval : {0, 25}]

FnInit ==
    /\ MainInit
    /\ presharedKey = ZeroKey
    /\ fnOp = "input"
    /\ fnNet \in FnNets
    /\ fnPeer \in FnPeers
    /\ fnAddr = OverlayNetwork
    /\ fnConfig = toPeerConfig(ServerPeer, OverlayNetwork)

\* getOverlayAddr(fnNet, fnPeer.PublicKey)
ApplyGetOverlayAddr ==
    /\ fnOp = "input"
    /\ fnOp' = "getOverlayAddr"
    /\ fnAddr' = getOverlayAddr(fnNet, fnPeer.PublicKey)
    /\ UNCHANGED <<fnNet, fnPeer, fnConfig>>
    /\ UNCHANGED mainVars

\* fnPeer.toPeerConfig(fnNet)
ApplyToPeerConfig ==
    /\ fnOp = "input"
    /\ fnOp' = "toPeerConfig"
    /\ fnConfig' = toPeerConfig(fnPeer, fnNet)
    /\ UNCHANGED <<fnNet, fnPeer, fnAddr>>
    /\ UNCHANGED mainVars

FnNext == ApplyGetOverlayAddr \/ ApplyToPeerConfig

SpecFn == FnInit /\ [][FnNext]_vars

-----------------------------------------------------------------------------
(* Claims about getOverlayAddr, toPeerConfig and AddPeers *)

\* how many leading one bits byte j of a mask of `ones` one bits has
MaskBitsOfByte(ones, j) ==
    IF ones >= 8 * j THEN 8 ELSE IF ones <= 8 * (j - 1) THEN 0 ELSE ones - 8 * (j - 1)

\* byte b with all but its k leading bits cleared: b & mask byte
AndMask(b, k) == (b \div (2 ^ (8 - k))) * (2 ^ (8 - k))

\* net.IPNet.Contains: ip and the base address agree on every masked bit
Contains(ipnet, ip) ==
    /\ Len(ip) = Len(ipnet.IP)
    /\ \A j \in 1..Len(ip) :
          AndMask(ip[j], MaskBitsOfByte(ipnet.Mask.ones, j))
              = AndMask(ipnet.IP[j], MaskBitsOfByte(ipnet.Mask.ones, j))

\* C7: for every prefix and identity, getOverlayAddr returns an address
\* inside the prefix with a mask of full length, /32 or /128.
C7_DerivedInsidePrefix ==
    fnOp = "getOverlayAddr" =>
        /\ Contains(fnNet, fnAddr.IP)
        /\ fnAddr.Mask.ones = fnAddr.Mask.bits
        /\ fnAddr.Mask.bits = 8 * Len(fnNet.IP)
        /\ fnAddr.Mask.bits \in {32, 128}

\* a /12 prefix whose base address has host bits set: two bytes were
\* overwritten, the four host bits of the second byte were kept
C7_Witness ==
    /\ fnOp = "getOverlayAddr"
    /\ fnNet.IP = <<10, 1, 2, 3>>
    /\ fnNet.Mask = CIDRMask(12, 32)
    /\ fnAddr.IP[2] = 1
    /\ fnAddr.IP[3] # 2
    /\ fnAddr.IP[4] # 3

\* getOverlayAddr was applied to 10.0.0.0/8 and an identity whose digest ends
\* in byte 0x2A
C8_Case ==
    /\ fnOp = "getOverlayAddr"
    /\ fnNet = [IP |-> <<10, 0, 0, 0>>, Mask |-> CIDRMask(8, 32)]
    /\ Sum256(fnPeer.PublicKey)[DigestSize] = 42

\* C8 as stated: for 10.0.0.0/8 and a digest ending in 0x2A the derived
\* address is 10.0.0.42/32, only the last byte being replaced.
C8_Original ==
    C8_Case => fnAddr = [IP |-> <<10, 0, 0, 42>>, Mask |-> CIDRMask(32, 32)]

\* C8: for 10.0.0.0/8 and a digest ending in 0x2A the derived address is
\* 10.x.y.42/32 with x, y the two digest bytes before the last: all three host
\* bytes are replaced by the digest's last three bytes.
C8_ThreeBytesReplaced ==
    C8_Case =>
        LET hb == Sum256(fnPeer.PublicKey)
        IN  fnAddr = [IP   |-> <<10, hb[DigestSize - 2], hb[DigestSize - 1], 42>>,
                      Mask |-> CIDRMask(32, 32)]

\* the case of C8 with a digest whose two bytes before the last are not zero
C8_Witness ==
    /\ C8_Case
    /\ fnPeer.PublicKey = "k2a"
    /\ fnAddr.IP[2] # 0
    /\ fnAddr.IP[3] # 0
    /\ fnAddr.IP[4] = 42

\* C9: every peer config of an AddPeers call has exactly one allowed range,
\* the overlay address derived from its own public key and the overlay
\* network, with a mask of full length.
C9_AllowedIPsDerived ==
    call.by # "none" =>
        \A j \in DOMAIN call.config :
            /\ Len(call.config[j].AllowedIPs) = 1
            /\ call.config[j].AllowedIPs[1]
                  = getOverlayAddr(OverlayNetwork, call.config[j].PublicKey)
            /\ call.config[j].AllowedIPs[1].Mask = CIDRMask(32, 32)
            /\ Contains(OverlayNetwork, call.config[j].AllowedIPs[1].IP)

\* two records for p1 that differ in endpoint, secret and keepalive were
\* submitted with the same allowed range
C9_Witness ==
    /\ call.by = "updatePeers"
    /\ KeysOf(call.config) = <<"p1", "p1">>
    /\ call.config[1].Endpoint # call.config[2].Endpoint
    /\ call.config[1].PersistentKeepaliveInterval # call.config[2].PersistentKeepaliveInterval
    /\ call.config[1].AllowedIPs = call.config[2].AllowedIPs

\* C10 as stated: toPeerConfig gives no endpoint when the port is 0 or the
\* address is empty, and otherwise an endpoint with the record's address and
\* port.
C10_Original ==
    fnOp = "toPeerConfig" =>
        IF fnPeer.Port = 0 \/ fnPeer.IP = ""
        THEN fnConfig.Endpoint = <<>>
        ELSE /\ Len(fnConfig.Endpoint) = 1
             /\ fnConfig.Endpoint[1].Port = fnPeer.Port
             /\ IPString(fnConfig.Endpoint[1].IP) = fnPeer.IP

-----------------------------------------------------------------------------
(* Teardown: DownInterface on every device state, called more than once *)

\* how many times DownInterface is called in SpecDown
MaxDownCalls == 3

\* the devices main can leave the loop with: the server peer and what the
\* attempts configured
DownDevs ==
    {ConfigureDevice(NoDevPeers,
        AddPeersConfig(<<ServerPeer>> \o Stamp(l, k), SelfKey, OverlayNetwork)) :
        l \in DirLists, k \in {ZeroKey, MeshSecret}}

\* main has left the loop; the link exists, or something else has removed it
\* in the meantime
DownInit ==
    /\ pcMain = "teardown"
    /\ iface \in BOOLEAN
    /\ devPeers \in (IF iface THEN DownDevs ELSE {NoDevPeers})
    /\ presharedKey \in {ZeroKey, MeshSecret}
    /\ sigPending = FALSE
    /\ timer = "drained"
    /\ attempts = [i \in Slots |-> IdleAttempt]
    /\ call = NoCall
    /\ downResult = "notrun"
    /\ downCalls = 0
    /\ FnIdle

\* DownInterface is called once more after the deferred call has returned
DownInterfaceAgain ==
    /\ pcMain = "returning"
    /\ downCalls < MaxDownCalls
    /\ DownInterfaceCall
    /\ call' = NoCall
    /\ UNCHANGED <<pcMain, presharedKey, sigPending, timer, attempts>>
    /\ UNCHANGED fnVars

DownNext == DownInterface \/ DownInterfaceAgain \/ Exit

\* main runs its deferred call and returns
SpecDown == DownInit /\ [][DownNext]_vars /\ WF_vars(DownInterface) /\ WF_vars(Exit)

\* C11: a call of DownInterface on a device that does not exist returns nil
\* and changes nothing, so a call after a successful teardown returns nil
\* too; a call that returns an error leaves the device as it is; and whatever
\* the deferred call returns, main goes on to return and the process ends.
C11_TeardownIdempotent ==
    /\ [][downCalls' = downCalls + 1 =>
            /\ ~iface => (downResult' = "ok" /\ ~iface' /\ devPeers' = devPeers)
            /\ downResult' = "ok" => ~iface'
            /\ downResult' = "err" => (iface /\ iface' /\ devPeers' = devPeers)
            /\ pcMain = "teardown" => pcMain' = "returning"]_vars
    /\ (pcMain = "teardown") ~> (pcMain = "exited")

\* DownInterface has been called again after it deleted the link, and
\* returned nil again
C11_Witness ==
    /\ downCalls >= 2
    /\ ~iface
    /\ downResult = "ok"
    /\ pcMain = "returning"

-----------------------------------------------------------------------------
(* The lifecycle of main and the device's peers over the attempts *)

\* the steps of main: Stopped is "new" and "exited", InterfaceUp "ifup",
\* Running "loop", ShuttingDown "teardown" and "returning"
LifecycleSteps ==
    {<<"new", "ifup">>, <<"new", "exited">>, <<"ifup", "loop">>, <<"ifup", "exited">>,
     <<"loop", "teardown">>, <<"teardown", "returning">>, <<"returning", "exited">>}

\* C12: main only moves new -> ifup -> loop -> teardown -> returning ->
\* exited, or from new or ifup straight to exited on a failure; an attempt is
\* launched only in the loop, with the interface up and the directory server
\* registered as a peer; and when SetUpInterface or the registration fails the
\* process ends with no attempt launched and no timer made.
C12_LifecycleOrder ==
    /\ [][/\ pcMain' # pcMain => <<pcMain, pcMain'>> \in LifecycleSteps
          /\ InFlight' \ InFlight # {} =>
                (pcMain = "loop" /\ iface /\ devPeers[ServerKey].present)
          /\ (pcMain \in {"new", "ifup"} /\ pcMain' = "exited") =>
                (InFlight' = {} /\ timer' = "none" /\ call'.err = (pcMain = "ifup"))]_vars
    /\ [](pcMain \in {"new", "ifup"} => (InFlight = {} /\ timer = "none"))
    /\ []((pcMain = "exited" /\ downCalls = 0) => (InFlight = {} /\ timer = "none"))

\* an attempt is in flight in the loop, after the server was registered
C12_Witness ==
    /\ pcMain = "loop"
    /\ InFlight # {}
    /\ iface
    /\ devPeers[ServerKey].present

\* C13: a key that is a peer of the device stays a peer until DownInterface
\* deletes the link; a call of AddPeers changes only the peers whose keys are
\* in the submitted list, and those it adds or overwrites; no other step of an
\* attempt changes the device.
C13_Additive ==
    [][/\ \A k \in Keys :
            (devPeers[k].present /\ ~devPeers'[k].present)
                => (downCalls' = downCalls + 1 /\ downResult' = "ok")
       /\ call' # NoCall =>
            \A k \in Keys :
                devPeers'[k] # devPeers[k]
                    => /\ \E j \in DOMAIN call'.peers : call'.peers[j].PublicKey = k
                       /\ devPeers'[k].present
                       /\ devPeers[k].AllowedIPs \subseteq devPeers'[k].AllowedIPs
       /\ (call' = NoCall /\ downCalls' = downCalls) => devPeers' = devPeers]_vars

\* an attempt has submitted an empty directory list and the server and p1
\* are still peers
C13_Witness ==
    /\ call.by = "updatePeers"
    /\ ~call.err
    /\ call.peers = <<>>
    /\ devPeers[ServerKey].present
    /\ devPeers["p1"].present

-----------------------------------------------------------------------------
(* The preshared key of submitted and configured peers *)

\* the lists that differ from l only in the preshared keys of their records
SecretVariants(l) ==
    {[j \in DOMAIN l |-> [l[j] EXCEPT !.PresharedKey = f[j]]] :
        f \in [DOMAIN l -> {ZeroKey, DirSecret, MeshSecret}]}

\* C14: in the AddPeers call of an attempt every submitted record and every
\* peer config carries preshardKey, the key main was started with (the zero
\* key when none is configured), and the device gets that key for each
\* submitted peer; the call made for any list that differs from the fetched
\* one only in preshared keys has the same config.
C14_MeshSecretStamped ==
    [][\A i \in Slots :
          (attempts[i].pc = "AddPeers" /\ attempts'[i].pc = "send") =>
              /\ call'.by = "updatePeers"
              /\ \A j \in DOMAIN call'.peers :
                    call'.peers[j].PresharedKey = presharedKey
              /\ \A j \in DOMAIN call'.config :
                    /\ call'.config[j].PresharedKey = <<presharedKey>>
                    /\ ~call'.err =>
                          devPeers'[call'.config[j].PublicKey].PresharedKey = presharedKey
              /\ \A l2 \in SecretVariants(attempts[i].peers) :
                    AddPeersConfig(Stamp(l2, presharedKey), SelfKey, OverlayNetwork)
                        = call'.config]_vars

\* a record the directory sent with its own key was submitted, and
\* configured, with the mesh key
C14_Witness ==
    /\ presharedKey = MeshSecret
    /\ call.by = "updatePeers"
    /\ ~call.err
    /\ \E j \in DOMAIN call.config :
          /\ call.config[j].PublicKey = "p1"
          /\ call.config[j].Endpoint # <<>>
          /\ call.config[j].PresharedKey = <<MeshSecret>>
    /\ devPeers["p1"].PresharedKey = MeshSecret

\* C15 as stated: toPeerConfig sets the PresharedKey field exactly when the
\* record's key is not the zero key.
C15_Original ==
    fnOp = "toPeerConfig" =>
        (fnConfig.PresharedKey # <<>> <=> fnPeer.PresharedKey # ZeroKey)

\* a peer of the device that has a preshared key
KeyedPeer == [NoPeer EXCEPT !.present = TRUE, !.PresharedKey = DirSecret]

\* C15: toPeerConfig always sets the PresharedKey field, to the record's key;
\* for the zero key the field points to the zero key, and ConfigureDevice
\* then clears the key of a peer that had one.
C15_SecretAlwaysSet ==
    fnOp = "toPeerConfig" =>
        /\ fnConfig.PresharedKey = <<fnPeer.PresharedKey>>
        /\ \A old \in {NoPeer, KeyedPeer} :
              UpsertPeer(old, fnConfig).PresharedKey = fnPeer.PresharedKey

\* a record with the zero key gave a config whose field is set
C15_Witness ==
    /\ fnOp = "toPeerConfig"
    /\ fnPeer.PresharedKey = ZeroKey
    /\ fnConfig.PresharedKey = <<ZeroKey>>

-----------------------------------------------------------------------------
(* Shutdown with attempts in flight, and the ways the process ends *)

\* main has taken case <-incomingSignals
LeftLoop == pcMain \in {"teardown", "returning", "exited"}

\* C16: after main has left the loop no goroutine is launched, no goroutine
\* blocked in its send on resp is received from, and main's timer stays as it
\* is; an AddPeers call made while the link does not exist returns an error
\* and leaves the link absent and the peers unchanged.
C16_NothingAfterShutdown ==
    [][/\ LeftLoop =>
            /\ InFlight' \subseteq InFlight
            /\ \A i \in Slots : attempts[i].pc = "send" => attempts'[i] = attempts[i]
            /\ timer' = timer
       /\ (LeftLoop /\ ~iface /\ call' # NoCall) =>
            /\ call'.err
            /\ ~iface'
            /\ devPeers' = devPeers]_vars

\* DownInterface has deleted the link, an attempt in flight has then called
\* AddPeers and got an error, and waits in its send
C16_Witness ==
    /\ pcMain = "returning"
    /\ downResult = "ok"
    /\ ~iface
    /\ devPeers = NoDevPeers
    /\ call.by = "updatePeers"
    /\ call.err
    /\ \E i \in Slots : attempts[i].pc = "send" /\ attempts[i].err = "AddPeers"

\* the number of host bits of a prefix and of trailing bytes that cover them
HostBits(ipnet) == ipnet.Mask.bits - ipnet.Mask.ones

CoverBytes(ipnet) == (HostBits(ipnet) + 7) \div 8

\* the last n bytes of the digest of k
DigestTail(k, n) == [i \in 1..n |-> Sum256(k)[DigestSize - n + i]]

\* C17 as stated: for a prefix with at least one host bit, an identity whose
\* digest differs from that of the given one in the trailing bytes covering
\* the host bits gets a different overlay address.
C17_Original ==
    (fnOp = "getOverlayAddr" /\ HostBits(fnNet) >= 1) =>
        \A k2 \in Keys :
            DigestTail(k2, CoverBytes(fnNet)) # DigestTail(fnPeer.PublicKey, CoverBytes(fnNet))
                => getOverlayAddr(fnNet, k2) # fnAddr

\* C18 as stated: a process that has ended with its link created has run
\* DownInterface.
C18_Original ==
    (pcMain = "exited" /\ iface) => downCalls > 0

\* C19 as stated: with a mesh key configured, in the loop every peer of the
\* device, the server included, has that key.
C19_Original ==
    (presharedKey # ZeroKey /\ pcMain = "loop") =>
        \A k \in Keys : devPeers[k].present => devPeers[k].PresharedKey = presharedKey

\* C19: in the loop every peer of the device other than the server has
\* preshardKey; main registers the server with the zero key, and the server
\* keeps it until an attempt submits a record with the server's key, which
\* gives it preshardKey like any other.
C19_SecretOnFetchedPeers ==
    /\ [](pcMain = "loop" =>
            \A k \in Keys :
                devPeers[k].present =>
                    \/ devPeers[k].PresharedKey = presharedKey
                    \/ k = ServerKey /\ devPeers[k].PresharedKey = ZeroKey)
    /\ [][/\ (pcMain = "ifup" /\ pcMain' = "loop") =>
                devPeers'[ServerKey].PresharedKey = ZeroKey
          /\ (pcMain = "loop"
                /\ devPeers'[ServerKey].PresharedKey # devPeers[ServerKey].PresharedKey) =>
                /\ call'.by = "updatePeers"
                /\ \E j \in DOMAIN call'.peers : call'.peers[j].PublicKey = ServerKey
                /\ devPeers'[ServerKey].PresharedKey = presharedKey]_vars

\* a mesh key is configured, a fetched peer has it and the server, registered
\* by main, has none
C19_Witness ==
    /\ presharedKey = MeshSecret
    /\ pcMain = "loop"
    /\ devPeers[ServerKey].present
    /\ devPeers[ServerKey].PresharedKey = ZeroKey
    /\ devPeers["p1"].present
    /\ devPeers["p1"].PresharedKey = MeshSecret

====
